---- MODULE Spec2Model ----
(***************************************************************************)
(* Model of vmod_acceptnorm.c: the Accept-header parser, the matcher, the  *)
(* ranker and the six VMOD functions working on one shared                 *)
(* acceptnorm_state (the vmod_priv slot of a call site).                   *)
(*                                                                         *)
(* A C string is a sequence of one-character strings; the terminating NUL  *)
(* is what At returns past the end.  A quality is a double whose value is  *)
(* a multiple of 1/100; it is kept as that number of hundredths.  strtod   *)
(* is modelled on decimal numerals (sign, digits, fraction of up to two    *)
(* digits); the infinity, NaN, hexadecimal and exponent forms are not in   *)
(* the input sets.                                                         *)
(***************************************************************************)
EXTENDS Integers, Sequences, FiniteSets, TLC

\* #define MAX_MEDIA_TYPES 64
MAX_MEDIA_TYPES == 64

\* sizeof(type_prefix) in get_quality_for_type
TYPE_PREFIX_SIZE == 256

\* The NUL that ends a C string, and the NULL pointer for a VCL_STRING.
NUL == "NUL"
NullStr == <<"NULL">>

At(s, p) == IF p >= 1 /\ p <= Len(s) THEN s[p] ELSE NUL

\* isspace() on the characters of the input sets
isspace(c) == c = " "

\* tolower() on the characters of the input sets
tolower(c) ==
  CASE c = "A" -> "a"
    [] c = "B" -> "b"
    [] c = "Q" -> "q"
    [] OTHER -> c

\* The unsigned char value strcmp compares.
Ord(c) ==
  CASE c = " " -> 32 [] c = "*" -> 42 [] c = "+" -> 43 [] c = "," -> 44
    [] c = "-" -> 45 [] c = "." -> 46 [] c = "/" -> 47
    [] c = "0" -> 48 [] c = "1" -> 49 [] c = "2" -> 50 [] c = "3" -> 51
    [] c = "4" -> 52 [] c = "5" -> 53 [] c = "6" -> 54 [] c = "7" -> 55
    [] c = "8" -> 56 [] c = "9" -> 57
    [] c = ";" -> 59 [] c = "=" -> 61
    [] c = "A" -> 65 [] c = "B" -> 66 [] c = "Q" -> 81
    [] c = "a" -> 97 [] c = "b" -> 98 [] c = "c" -> 99
    [] c = "q" -> 113 [] c = "x" -> 120
    [] c = NUL -> 0

IsDigit(c) == c \in {"0", "1", "2", "3", "4", "5", "6", "7", "8", "9"}
DigitVal(c) == Ord(c) - 48

\* The index at which strcmp stops: the first where a and b differ or a ends
FirstDiff(a, b) ==
  CHOOSE k \in 1..(Len(a) + 1) :
    /\ At(a, k) # At(b, k) \/ At(a, k) = NUL
    /\ \A r \in 1..(k - 1) : At(a, r) = At(b, r)

\* strcmp(a, b): negative, zero or positive
StrcmpAt(a, b, k) == Ord(At(a, k)) - Ord(At(b, k))

strcmp(a, b) == StrcmpAt(a, b, FirstDiff(a, b))

\* strchr(s, c): the index of the first c in s, 0 for NULL
strchr(s, c) ==
  IF \A i \in 1..Len(s) : s[i] # c THEN 0
  ELSE CHOOSE i \in 1..Len(s) : s[i] = c /\ \A r \in 1..(i - 1) : s[r] # c

\* the tolower loop over a copied string
LowerStr(s) == [i \in 1..Len(s) |-> tolower(s[i])]

\* skip_ws: while (*p && isspace(*p)) p++, so the first position from p on
\* that holds no whitespace
skip_ws(s, p) ==
  CHOOSE q \in p..(Len(s) + 1) :
    /\ At(s, q) = NUL \/ ~isspace(At(s, q))
    /\ \A r \in p..(q - 1) : isspace(s[r])

\* while (*p && *p is none of stops) p++, so the first position from p on
\* that holds the NUL or one of stops
ScanUntil(s, p, stops) ==
  CHOOSE q \in p..(Len(s) + 1) :
    /\ At(s, q) = NUL \/ At(s, q) \in stops
    /\ \A r \in p..(q - 1) : s[r] \notin stops

\* while (end > start && isspace(*(end - 1))) end--
TrimEnd(s, start, end) ==
  CHOOSE e \in start..end :
    /\ e = start \/ ~isspace(s[e - 1])
    /\ \A r \in (e + 1)..end : isspace(s[r - 1])

\* strndup(start, end - start)
SubStr(s, start, end) == [i \in 1..(end - start) |-> s[start + i - 1]]

\* The end of the digits from p on, and their value
DigitsEnd(s, p) ==
  CHOOSE q \in p..(Len(s) + 1) :
    /\ ~IsDigit(At(s, q))
    /\ \A r \in p..(q - 1) : IsDigit(s[r])

RECURSIVE DigitsValue(_, _, _, _)
DigitsValue(s, p, e, acc) ==
  IF p >= e THEN acc ELSE DigitsValue(s, p + 1, e, acc * 10 + DigitVal(s[p]))

\* strtod(p, &p) on a decimal numeral, in the stages of its scan: the
\* sign, the integer digits [p1, ie), the fraction digits (ie, fe).  The
\* result is the value in hundredths and the end pointer.  With no digit at
\* all there is no conversion: 0.0 is returned and the end pointer is the
\* start.
StrtodResult(s, p, neg, p1, ie, fe) ==
  IF (ie - p1) + (IF fe > ie THEN fe - (ie + 1) ELSE 0) = 0
  THEN [val |-> 0, p |-> p]
  ELSE [val |-> (IF neg THEN -1 ELSE 1)
                  * (DigitsValue(s, p1, ie, 0) * 100
                     + (IF fe - ie >= 2 THEN DigitVal(s[ie + 1]) * 10 ELSE 0)
                     + (IF fe - ie >= 3 THEN DigitVal(s[ie + 2]) ELSE 0)),
        p |-> fe]

StrtodFraction(s, p, neg, p1, ie) ==
  StrtodResult(s, p, neg, p1, ie,
               IF At(s, ie) = "." THEN DigitsEnd(s, ie + 1) ELSE ie)

StrtodSign(s, p, p1) ==
  StrtodFraction(s, p, At(s, p) = "-", p1, DigitsEnd(s, p1))

strtod(s, p) ==
  StrtodSign(s, p, IF At(s, p) \in {"-", "+"} THEN p + 1 ELSE p)

\* the clamp of the parsed quality to [0.0, 1.0]
Clamp(q) == IF q < 0 THEN 0 ELSE IF q > 100 THEN 100 ELSE q

\* The parameter loop of parse_media_type, while (*p == ';'), in stages:
\* the name [param_start, pn), then the value.
RECURSIVE ParseParams(_, _, _)

\* quality = strtod(p, &p) and its clamp, then the loop goes on at p
ParamQuality(s, r) == ParseParams(s, r.p, Clamp(r.val))

ParamValue(s, param_start, pn, quality) ==
  IF At(s, pn) = "=" /\ pn - param_start = 1
       /\ tolower(At(s, param_start)) = "q"
  THEN ParamQuality(s, strtod(s, skip_ws(s, pn + 1)))
  ELSE IF At(s, pn) = "="
       THEN ParseParams(s, ScanUntil(s, pn + 1, {";", ","}), quality)
       ELSE ParseParams(s, pn, quality)

ParamName(s, param_start, quality) ==
  ParamValue(s, param_start, ScanUntil(s, param_start, {"=", ";", ","}), quality)

ParseParams(s, p, quality) ==
  IF At(s, p) # ";" THEN [p |-> p, quality |-> quality]
  ELSE ParamName(s, skip_ws(s, p + 1), quality)

\* if (*p == ',') p++
SkipComma(s, p) == IF At(s, p) = "," THEN p + 1 ELSE p

\* parse_media_type(p, &type, &quality), in stages: the type [start, end),
\* the parameters from pe on, the comma.  ok is FALSE for a NULL return,
\* otherwise p is the returned pointer.
MediaTypeDone(s, type, pr) ==
  [ok |-> TRUE, p |-> SkipComma(s, skip_ws(s, pr.p)),
   type |-> type, quality |-> pr.quality]

MediaTypeTrimmed(s, start, end, pe) ==
  IF end <= start THEN [ok |-> FALSE]
  ELSE MediaTypeDone(s, LowerStr(SubStr(s, start, end)), ParseParams(s, pe, 100))

MediaTypeToken(s, start, pe) ==
  MediaTypeTrimmed(s, start, TrimEnd(s, start, pe), pe)

MediaTypeStart(s, start) ==
  IF At(s, start) = NUL THEN [ok |-> FALSE]
  ELSE MediaTypeToken(s, start, ScanUntil(s, start, {";", ","}))

parse_media_type(s, p) == MediaTypeStart(s, skip_ws(s, p))

\* acceptnorm_state_clear that frees nothing: the entries of the call before
\* stay in the state
acceptnorm_state_kept(st) == st

\* acceptnorm_state_clear: every entry freed, count = 0
acceptnorm_state_clear(st) == <<>>

\* The loop of parse_accept_header.  Its state x is the pointer p, the
\* entries st and whether the loop has ended.  One iteration appends an
\* entry at index count while text is left and count < MAX_MEDIA_TYPES; a
\* NULL from parse_media_type ends the loop.
ParseStep(s, x, r) ==
  IF ~r.ok THEN [p |-> x.p, st |-> x.st, done |-> TRUE]
  ELSE [p |-> r.p,
        st |-> Append(x.st, [type |-> r.type, quality |-> r.quality]),
        done |-> FALSE]

\* The iteration with the capacity test off by one: count <= MAX_MEDIA_TYPES
ParseIterationOffByOne(s, x) ==
  IF x.done THEN x
  ELSE IF At(s, x.p) # NUL /\ Len(x.st) <= MAX_MEDIA_TYPES
       THEN ParseStep(s, x, parse_media_type(s, x.p))
       ELSE [p |-> x.p, st |-> x.st, done |-> TRUE]

ParseIteration(s, x) ==
  IF x.done THEN x
  ELSE IF At(s, x.p) # NUL /\ Len(x.st) < MAX_MEDIA_TYPES
       THEN ParseStep(s, x, parse_media_type(s, x.p))
       ELSE [p |-> x.p, st |-> x.st, done |-> TRUE]

\* n iterations of the loop, the first half and then the second; every
\* iteration that appends moves p on, so Len(s) iterations end the loop.
RECURSIVE ParseLoop(_, _, _)
ParseLoop(s, n, x) ==
  IF n = 0 \/ x.done THEN x
  ELSE IF n = 1 THEN ParseIteration(s, x)
  ELSE ParseLoop(s, n - (n \div 2), ParseLoop(s, n \div 2, x))

IsNullOrEmpty(h) == h = NullStr \/ h = <<>>

\* parse_accept_header(state, header): the state after the call
parse_accept_header(st, header) ==
  IF IsNullOrEmpty(header) THEN acceptnorm_state_clear(st)
  ELSE ParseLoop(header, Len(header),
                 [p |-> 1, st |-> acceptnorm_state_clear(st), done |-> FALSE]).st

\* media_type_cmp: quality descending, then strcmp of the types
media_type_cmp(a, b) ==
  IF a.quality > b.quality THEN -1
  ELSE IF a.quality < b.quality THEN 1
  ELSE strcmp(a.type, b.type)

\* qsort with media_type_cmp, as an insertion sort.  Two entries that
\* compare equal have the same type and the same quality, so every sorting
\* algorithm gives this list.
InsertAt(sorted, e, i) ==
  SubSeq(sorted, 1, i - 1) \o <<e>> \o SubSeq(sorted, i, Len(sorted))

InsertSorted(sorted, e) ==
  InsertAt(sorted, e,
    CHOOSE i \in 1..(Len(sorted) + 1) :
      /\ i = Len(sorted) + 1 \/ media_type_cmp(e, sorted[i]) < 0
      /\ \A r \in 1..(i - 1) : media_type_cmp(e, sorted[r]) >= 0)

\* The entries lo..hi of st inserted into acc, the first half and then the
\* second; nothing is left to insert once acc holds every entry
RECURSIVE qsort(_, _, _, _)
qsort(st, lo, hi, acc) ==
  IF lo > hi \/ Len(acc) >= Len(st) THEN acc
  ELSE IF lo = hi THEN InsertSorted(acc, st[lo])
  ELSE qsort(st, ((lo + hi) \div 2) + 1, hi, qsort(st, lo, (lo + hi) \div 2, acc))

\* sort_media_types that leaves the entries in header order
sort_media_types_skipped(st) == st

\* sort_media_types(state)
sort_media_types(st) == IF Len(st) > 1 THEN qsort(st, 1, Len(st), <<>>) ELSE st

\* media_type_match(pattern, type); p_slash and t_slash are the indexes
\* strchr finds, 0 for NULL
MatchSlashes(pattern, type, p_slash, t_slash) ==
  IF p_slash = 0 \/ t_slash = 0 THEN strcmp(pattern, type) = 0
  ELSE IF strcmp(SubStr(pattern, p_slash + 1, Len(pattern) + 1), <<"*">>) = 0
       THEN p_slash = t_slash
            /\ SubStr(pattern, 1, p_slash) = SubStr(type, 1, p_slash)
       ELSE strcmp(pattern, type) = 0

media_type_match(pattern, type) ==
  IF strcmp(pattern, <<"*", "/", "*">>) = 0 THEN TRUE
  ELSE MatchSlashes(pattern, type, strchr(pattern, "/"), strchr(type, "/"))

\* type_prefix of get_quality_for_type: "main/*", or "" when the type has no
\* slash or its main part does not fit the buffer
PrefixAt(type, slash) ==
  IF slash # 0 /\ slash - 1 < TYPE_PREFIX_SIZE - 2
  THEN SubStr(type, 1, slash) \o <<"/", "*">>
  ELSE <<>>

TypePrefix(type) == PrefixAt(type, strchr(type, "/"))

\* The iteration of the scan that keeps the first quality seen of a wildcard
\* category instead of assigning every time
QualityIterationFirstSeen(e, type, type_prefix, x) ==
  IF x.returned THEN x
  ELSE IF strcmp(e.type, type) = 0
       THEN [x EXCEPT !.returned = TRUE, !.quality = e.quality]
  ELSE IF strcmp(e.type, <<"*", "/", "*">>) = 0
       THEN IF x.wildcard_quality < 0
            THEN [x EXCEPT !.wildcard_quality = e.quality] ELSE x
  ELSE IF type_prefix # <<>> /\ strcmp(e.type, type_prefix) = 0
       THEN IF x.type_wildcard_quality < 0
            THEN [x EXCEPT !.type_wildcard_quality = e.quality] ELSE x
  ELSE x

\* The scan of get_quality_for_type.  Its state x is whether an exact match
\* has returned (with its quality) and the two wildcard qualities; -100
\* stands for the -1.0 sentinel.
QualityIteration(e, type, type_prefix, x) ==
  IF x.returned THEN x
  ELSE IF strcmp(e.type, type) = 0
       THEN [x EXCEPT !.returned = TRUE, !.quality = e.quality]
  ELSE IF strcmp(e.type, <<"*", "/", "*">>) = 0
       THEN [x EXCEPT !.wildcard_quality = e.quality]
  ELSE IF type_prefix # <<>> /\ strcmp(e.type, type_prefix) = 0
       THEN [x EXCEPT !.type_wildcard_quality = e.quality]
  ELSE x

\* The iterations lo..hi of the scan, the first half and then the second
RECURSIVE QualityScan(_, _, _, _, _, _)
QualityScan(st, lo, hi, type, type_prefix, x) ==
  IF lo > hi \/ x.returned THEN x
  ELSE IF lo = hi THEN QualityIteration(st[lo], type, type_prefix, x)
  ELSE QualityScan(st, ((lo + hi) \div 2) + 1, hi, type, type_prefix,
         QualityScan(st, lo, (lo + hi) \div 2, type, type_prefix, x))

\* The result with the two wildcard tests in the other order: */* before
\* main/*
QualityResultAnyFirst(x) ==
  IF x.returned THEN x.quality
  ELSE IF x.wildcard_quality >= 0 THEN x.wildcard_quality
  ELSE IF x.type_wildcard_quality >= 0 THEN x.type_wildcard_quality
  ELSE 0

\* After the scan: the exact match, else the most specific wildcard match
QualityResult(x) ==
  IF x.returned THEN x.quality
  ELSE IF x.type_wildcard_quality >= 0 THEN x.type_wildcard_quality
  ELSE IF x.wildcard_quality >= 0 THEN x.wildcard_quality
  ELSE 0

\* get_quality_for_type(state, type)
get_quality_for_type(st, type) ==
  QualityResult(QualityScan(st, 1, Len(st), type, TypePrefix(type),
    [returned |-> FALSE, quality |-> 0,
     wildcard_quality |-> -100, type_wildcard_quality |-> -100]))

\* The hundredths at which "%.1f" rounds the double up to the next tenth
\* although the decimal numeral is a tie (the double lies above it).
TieRoundsUp == {5, 45, 55, 65, 75}

\* printf("%.1f") of a quality in [0.0, 1.0]: the number of tenths printed
Tenths(q) ==
  (q \div 10) + (IF (q % 10) > 5 \/ ((q % 10) = 5 /\ q \in TieRoundsUp)
                 THEN 1 ELSE 0)

DigitChar(d) ==
  CASE d = 0 -> "0" [] d = 1 -> "1" [] d = 2 -> "2" [] d = 3 -> "3"
    [] d = 4 -> "4" [] d = 5 -> "5" [] d = 6 -> "6" [] d = 7 -> "7"
    [] d = 8 -> "8" [] d = 9 -> "9"

\* VSB_printf(vsb, ";q=%.1f", quality)
FormatQ(q) ==
  <<";", "q", "=", DigitChar(Tenths(q) \div 10), ".", DigitChar(Tenths(q) % 10)>>

\* build_accept_string(ctx, state): what the loop appends for entry i, and
\* the text of the entries lo..hi
BuildEntry(st, i) ==
  (IF i > 1 THEN <<",", " ">> ELSE <<>>) \o st[i].type
    \o (IF st[i].quality < 100 THEN FormatQ(st[i].quality) ELSE <<>>)

RECURSIVE BuildRange(_, _, _)
BuildRange(st, lo, hi) ==
  IF lo = hi THEN BuildEntry(st, lo)
  ELSE BuildRange(st, lo, (lo + hi) \div 2)
         \o BuildRange(st, ((lo + hi) \div 2) + 1, hi)

build_accept_string(st) ==
  IF Len(st) = 0 THEN <<>> ELSE BuildRange(st, 1, Len(st))

\* The loop of parse_preferred_types.  Its state x is the pointer p, the
\* types filled in and whether the loop has ended.  One iteration takes the
\* token [start, end) that ends at pe.
PrefToken(s, start, pe, end, x) ==
  [p |-> SkipComma(s, pe),
   types |-> IF end > start
             THEN Append(x.types, LowerStr(SubStr(s, start, end)))
             ELSE x.types,
   done |-> FALSE]

PrefScan(s, start, pe, x) == PrefToken(s, start, pe, TrimEnd(s, start, pe), x)

PrefStart(s, start, x) ==
  IF At(s, start) = NUL THEN [p |-> start, types |-> x.types, done |-> TRUE]
  ELSE PrefScan(s, start, ScanUntil(s, start, {","}), x)

PrefIteration(s, x, max_types) ==
  IF x.done THEN x
  ELSE IF At(s, x.p) # NUL /\ Len(x.types) < max_types
       THEN PrefStart(s, skip_ws(s, x.p), x)
       ELSE [p |-> x.p, types |-> x.types, done |-> TRUE]

\* n iterations of the loop, the first half and then the second; every
\* iteration moves p on, so Len(s) iterations end the loop.
RECURSIVE PrefLoop(_, _, _, _)
PrefLoop(s, n, x, max_types) ==
  IF n = 0 \/ x.done THEN x
  ELSE IF n = 1 THEN PrefIteration(s, x, max_types)
  ELSE PrefLoop(s, n - (n \div 2), PrefLoop(s, n \div 2, x, max_types), max_types)

\* parse_preferred_types(preferred, types, max_types): the types filled in
parse_preferred_types(preferred, max_types) ==
  IF IsNullOrEmpty(preferred) THEN <<>>
  ELSE PrefLoop(preferred, Len(preferred),
                [p |-> 1, types |-> <<>>, done |-> FALSE], max_types).types

\* The inner loop of vmod_filter and vmod_best_match.  Its state x is the
\* index j and the quality, which becomes that of a matching entry when
\* that is greater.
MatchIteration(st, pref, x) ==
  [j |-> x.j + 1,
   quality |-> IF media_type_match(st[x.j].type, pref)
                  /\ st[x.j].quality > x.quality
               THEN st[x.j].quality ELSE x.quality]

\* n iterations of the loop, the first half and then the second
RECURSIVE MatchLoop(_, _, _, _)
MatchLoop(st, pref, n, x) ==
  IF n = 0 \/ x.j > Len(st) THEN x
  ELSE IF n = 1 THEN MatchIteration(st, pref, x)
  ELSE MatchLoop(st, pref, n - (n \div 2), MatchLoop(st, pref, n \div 2, x))

MatchQuality(st, pref) ==
  MatchLoop(st, pref, Len(st), [j |-> 1, quality |-> 0]).quality

\* What a VMOD function hands back: the shared state after the call, the
\* value returned, and the call's local lists.
Outcome(st, str, real, bool, prefs, list) ==
  [types |-> st, str |-> str, real |-> real, bool |-> bool,
   pref_types |-> prefs, built |-> list]

\* vmod_canonicalize(ctx, priv, accept_header)
CanonicalizeSorted(sorted) ==
  Outcome(sorted, build_accept_string(sorted), 0, FALSE, <<>>, sorted)

vmod_canonicalize(st, accept_header) ==
  IF IsNullOrEmpty(accept_header)
  THEN Outcome(st, <<>>, 0, FALSE, <<>>, <<>>)
  ELSE CanonicalizeSorted(sort_media_types(parse_accept_header(st, accept_header)))

\* The test of vmod_filter with quality >= 0.0: types the client does not
\* accept are kept too
FilterKeepUnaccepted(pref, filtered, quality) ==
  IF quality >= 0 THEN Append(filtered, [type |-> pref, quality |-> quality])
  ELSE filtered

\* The loop of vmod_filter that keeps the preferred types the client
\* accepts, over the preferred types lo..hi; it ends when the filtered
\* state is full
FilterKeep(pref, filtered, quality) ==
  IF quality > 0 THEN Append(filtered, [type |-> pref, quality |-> quality])
  ELSE filtered

RECURSIVE FilterLoop(_, _, _, _, _)
FilterLoop(st, prefs, lo, hi, filtered) ==
  IF lo > hi \/ Len(filtered) >= MAX_MEDIA_TYPES THEN filtered
  ELSE IF lo = hi THEN FilterKeep(prefs[lo], filtered, MatchQuality(st, prefs[lo]))
  ELSE FilterLoop(st, prefs, ((lo + hi) \div 2) + 1, hi,
         FilterLoop(st, prefs, lo, (lo + hi) \div 2, filtered))

\* vmod_filter(ctx, priv, accept_header, preferred), in stages: the header
\* and the preferred list parsed, the kept list, the list with the
\* fallback sorted
FilterSorted(parsed, prefs, sorted) ==
  Outcome(parsed, build_accept_string(sorted), 0, FALSE, prefs, sorted)

FilterKept(parsed, prefs, kept) ==
  FilterSorted(parsed, prefs,
    sort_media_types(IF Len(kept) = 0 /\ Len(prefs) > 0
                     THEN <<[type |-> prefs[1], quality |-> 100]>>
                     ELSE kept))

FilterParsed(parsed, prefs) ==
  FilterKept(parsed, prefs, FilterLoop(parsed, prefs, 1, Len(prefs), <<>>))

FilterNoHeader(st, prefs) ==
  Outcome(st, IF Len(prefs) > 0 THEN prefs[1] ELSE <<>>, 0, FALSE, prefs, <<>>)

vmod_filter(st, accept_header, preferred) ==
  IF IsNullOrEmpty(preferred) THEN vmod_canonicalize(st, accept_header)
  ELSE IF IsNullOrEmpty(accept_header)
  THEN FilterNoHeader(st, parse_preferred_types(preferred, MAX_MEDIA_TYPES))
  ELSE FilterParsed(parse_accept_header(st, accept_header),
                    parse_preferred_types(preferred, MAX_MEDIA_TYPES))

\* The step of vmod_best_match with quality >= best_quality: a tie moves
\* best_type to the later preferred type
BestStepLatest(x, quality) ==
  IF quality >= x.best_quality
  THEN [i |-> x.i + 1, best |-> x.i, best_quality |-> quality]
  ELSE [i |-> x.i + 1, best |-> x.best, best_quality |-> x.best_quality]

\* The loop of vmod_best_match.  Its state x is the index i, the index of
\* best_type, 0 for NULL, and best_quality, which starts at the -1.0
\* sentinel (-100).
BestStep(x, quality) ==
  IF quality > x.best_quality
  THEN [i |-> x.i + 1, best |-> x.i, best_quality |-> quality]
  ELSE [i |-> x.i + 1, best |-> x.best, best_quality |-> x.best_quality]

\* n iterations of the loop, the first half and then the second
RECURSIVE BestLoop(_, _, _, _)
BestLoop(st, prefs, n, x) ==
  IF n = 0 \/ x.i > Len(prefs) THEN x
  ELSE IF n = 1 THEN BestStep(x, MatchQuality(st, prefs[x.i]))
  ELSE BestLoop(st, prefs, n - (n \div 2), BestLoop(st, prefs, n \div 2, x))

\* vmod_best_match(ctx, priv, accept_header, preferred)
BestFound(parsed, prefs, best) ==
  Outcome(parsed, IF best = 0 THEN prefs[1] ELSE prefs[best], 0, FALSE,
          prefs, <<>>)

BestParsed(parsed, prefs) ==
  BestFound(parsed, prefs,
    BestLoop(parsed, prefs, Len(prefs),
             [i |-> 1, best |-> 0, best_quality |-> -100]).best)

BestPrefs(st, accept_header, prefs) ==
  IF Len(prefs) = 0 THEN Outcome(st, <<>>, 0, FALSE, prefs, <<>>)
  ELSE IF IsNullOrEmpty(accept_header)
  THEN Outcome(st, prefs[1], 0, FALSE, prefs, <<>>)
  ELSE BestParsed(parse_accept_header(st, accept_header), prefs)

vmod_best_match(st, accept_header, preferred) ==
  BestPrefs(st, accept_header,
            parse_preferred_types(preferred, MAX_MEDIA_TYPES))

\* The nested loops of vmod_prefer over the preferred types lo..hi: hit is
\* the index of the preferred type returned, 0 while none is.  The inner
\* loop returns at the first entry of quality > 0.0 that matches.
PreferIteration(st, prefs, i, hit) ==
  IF hit # 0 THEN hit
  ELSE IF \E j \in 1..Len(st) :
            media_type_match(st[j].type, prefs[i]) /\ st[j].quality > 0
       THEN i
  ELSE 0

RECURSIVE PreferLoop(_, _, _, _, _)
PreferLoop(st, prefs, lo, hi, hit) ==
  IF lo > hi \/ hit # 0 THEN hit
  ELSE IF lo = hi THEN PreferIteration(st, prefs, lo, hit)
  ELSE PreferLoop(st, prefs, ((lo + hi) \div 2) + 1, hi,
         PreferLoop(st, prefs, lo, (lo + hi) \div 2, hit))

\* vmod_prefer(ctx, priv, accept_header, preferred)
PreferFound(parsed, accept_header, prefs, hit) ==
  Outcome(parsed, IF hit # 0 THEN prefs[hit] ELSE accept_header, 0, FALSE,
          prefs, <<>>)

PreferParsed(parsed, accept_header, prefs) ==
  PreferFound(parsed, accept_header, prefs,
              PreferLoop(parsed, prefs, 1, Len(prefs), 0))

PreferPrefs(st, accept_header, prefs) ==
  IF Len(prefs) = 0 THEN Outcome(st, accept_header, 0, FALSE, prefs, <<>>)
  ELSE PreferParsed(parse_accept_header(st, accept_header), accept_header, prefs)

vmod_prefer(st, accept_header, preferred) ==
  IF IsNullOrEmpty(accept_header) THEN Outcome(st, <<>>, 0, FALSE, <<>>, <<>>)
  ELSE PreferPrefs(st, accept_header,
                   parse_preferred_types(preferred, MAX_MEDIA_TYPES))

\* vmod_quality(ctx, priv, accept_header, media_type)
QualityParsed(parsed, type_lower) ==
  Outcome(parsed, <<>>, get_quality_for_type(parsed, type_lower), FALSE,
          <<>>, <<>>)

vmod_quality(st, accept_header, media_type) ==
  IF IsNullOrEmpty(accept_header) THEN Outcome(st, <<>>, 0, FALSE, <<>>, <<>>)
  ELSE IF IsNullOrEmpty(media_type) THEN Outcome(st, <<>>, 0, FALSE, <<>>, <<>>)
  ELSE QualityParsed(parse_accept_header(st, accept_header), LowerStr(media_type))

\* vmod_accepts(ctx, priv, accept_header, media_type)
AcceptsQuality(r) == Outcome(r.types, <<>>, 0, r.real > 0, <<>>, <<>>)

vmod_accepts(st, accept_header, media_type) ==
  AcceptsQuality(vmod_quality(st, accept_header, media_type))

\* ---- the inputs of the calls ----

\* The number of entries of a generated header
MaxEntries == 2

\* The number of entries of the header and of the preferred list that
\* exceed the capacity
LongN == 66

\* The entries generated headers are made of
EntrySet ==
  { <<"a", "/", "b", ";", "q", "=", "0", ".", "8">>,   \* a/b;q=0.8
    <<"a", "/", "*", ";", "q", "=", "0", ".", "9", "6">>,   \* a/*;q=0.96
    <<"*", "/", "*", ";", "q", "=", "0", ".", "2">> }   \* */*;q=0.2

\* The strings lo..hi of es joined by sep
RECURSIVE JoinRange(_, _, _, _)
JoinRange(es, sep, lo, hi) ==
  IF lo = hi THEN es[lo]
  ELSE JoinRange(es, sep, lo, (lo + hi) \div 2) \o sep
         \o JoinRange(es, sep, ((lo + hi) \div 2) + 1, hi)

Join(es, sep) == JoinRange(es, sep, 1, Len(es))

\* Every header of 1..MaxEntries entries of EntrySet
GeneratedHeaders ==
  UNION { { Join(es, <<",", " ">>) : es \in [1..n -> EntrySet] } : n \in 1..MaxEntries }

\* Headers with a comma-segment whose type token is empty
EmptySegmentHeaders ==
  { <<"a", "/", "b", ",", ",", "b", "/", "c">>,   \* a/b,,b/c
    <<",", "a", "/", "b">>,   \* ,a/b
    <<";", "q", "=", "0", ".", "5", ",", "a", "/", "b">> }   \* ;q=0.5,a/b

\* Headers of the one entry a/b whose q value is no number
BadQHeaders ==
  { <<"a", "/", "b", ";", "q", "=", "a", "b", "c">>,   \* a/b;q=abc
    <<"a", "/", "b", ";", "q", "=">> }   \* a/b;q=

\* Headers with clamped, padded, repeated and other entries
EdgeHeaders ==
  { <<"*", "/", "*", ";", "q", "=", "0", ".", "2", ",", " ", "*", "/", "*", ";", "q", "=", "0", ".", "7">>,   \* */*;q=0.2, */*;q=0.7
    <<"b", "/", "c", ";", "q", "=", "0", ".", "8", "4", ",", " ", "a", "/", "b", ";", "q", "=", "0", ".", "8">>,   \* b/c;q=0.84, a/b;q=0.8
    <<"b", "/", "c", ",", " ", "a", "/", "*", ";", "q", "=", "0", ".", "9", "6">>,   \* b/c, a/*;q=0.96
    <<"b", "/", "c", ",", " ", "a", "/", "b">>,   \* b/c, a/b
    <<"a", "/", "b", ";", "q", "=", "a", "b", "c", ",", " ", "b", "/", "c", ";", "q", "=", "0", ".", "5">>,   \* a/b;q=abc, b/c;q=0.5
    <<" ", "A", "/", "B", " ", ";", " ", "Q", "=", "0", ".", "5", " ", ",", "b", "/", "c">>,   \*  A/B ; Q=0.5 ,b/c
    <<"a", "/", "b", ";", "x", "=", "1", ";", "q", "=", "0", ".", "5">>,   \* a/b;x=1;q=0.5
    <<"a", "/", "b", ";", "q", "=", "5", ",", " ", "b", "/", "c", ";", "q", "=", "-", "3">>,   \* a/b;q=5, b/c;q=-3
    <<"a", "/", "b", ";", "q", "=", "0", ",", " ", "*", "/", "*", ";", "q", "=", "0", ".", "5">>,   \* a/b;q=0, */*;q=0.5
    <<"a", "/", "c", ";", "q", "=", "0", ".", "0", "5", ",", " ", "a", "/", "b", ";", "q", "=", "0", ".", "5", " ", ";", "x", "=", "1", ",", " ", "b", "/", "c">>,   \* a/c;q=0.05, a/b;q=0.5 ;x=1, b/c
    <<"a", "b", ",", " ", "a", "/", "*", ";", "q", "=", "0", ".", "5">>,   \* ab, a/*;q=0.5
    <<"a", "/", "*", ";", "q", "=", "0", ".", "8", ",", " ", "a", "/", "*", ";", "q", "=", "0", ".", "9", "6">> }   \* a/*;q=0.8, a/*;q=0.96

\* A main type of the least length that does not fit type_prefix
LongMain == [i \in 1..(TYPE_PREFIX_SIZE - 2) |-> "a"]

\* "<LongMain>/*;q=0.5, */*;q=0.2" and the type "<LongMain>/b"
LongMainHeader ==
  LongMain \o <<"/", "*", ";", "q", "=", "0", ".", "5", ",", " ",
                "*", "/", "*", ";", "q", "=", "0", ".", "2">>

LongMainType == LongMain \o <<"/", "b">>

Headers ==
  {NullStr, <<>>, LongMainHeader} \cup GeneratedHeaders
    \cup EmptySegmentHeaders \cup BadQHeaders \cup EdgeHeaders

\* The preferred lists
PrefLists ==
  { <<"a", "/", "b">>,   \* a/b
    <<"b", "/", "c", ",", "a", "/", "b">>,   \* b/c,a/b
    <<"a", "/", "c", ",", " ", "A", "/", "B">>,   \* a/c, A/B
    <<",", ",", " ">>,   \* ,, 
    <<"c", "/", "c", ",", "a", "/", "c">> }   \* c/c,a/c

Preferred == {NullStr, <<>>} \cup PrefLists

\* The media types asked about
TypeNames ==
  { <<"a", "/", "b">>,   \* a/b
    <<"A", "/", "B">>,   \* A/B
    <<"a", "/", "c">>,   \* a/c
    <<"a", "b">> }   \* ab

MediaTypes == {NullStr, <<>>, LongMainType} \cup TypeNames

\* The i-th type of the long lists: "a/" and the two digits of i
NumberedType(i) == <<"a", "/", DigitChar(i \div 10), DigitChar(i % 10)>>

\* LongN distinct types, as entries, as a header and as a preferred list
LongEntries == [i \in 1..LongN |-> [type |-> NumberedType(i), quality |-> 100]]
LongHeader == Join([i \in 1..LongN |-> NumberedType(i)], <<",", " ">>)
LongPreferred == Join([i \in 1..LongN |-> NumberedType(i)], <<",">>)

\* The inputs of the calls that reach the capacity
LongHeaders ==
  {NullStr, LongHeader, <<"a", "/", "1", "0", ";", "q", "=", "0", ".", "5">>, <<"a", "/", "*", ";", "q", "=", "0", ".", "8", ",", " ", "a", "/", "7", "0", ";", "q", "=", "0", ".", "2">>}

LongPreferreds == {NullStr, LongPreferred, <<"a", "/", "7", "0", ",", "a", "/", "1", "0">>}

LongMediaTypes == {NullStr, <<"a", "/", "6", "4">>, <<"a", "/", "6", "5">>}

\* ---- the state machine ----

VARIABLES
  types,       \* state->types[0 .. count-1] of the shared acceptnorm_state
  pc,          \* "idle", or "returned" while the caller holds a result
  op,          \* the VMOD function last called
  header,      \* its accept_header
  arg,         \* its preferred or media_type
  reused,      \* whether state->count was above 0 when it was called
  resStr,      \* the VCL_STRING it returned
  resReal,     \* the VCL_REAL it returned, in hundredths
  resBool,     \* the VCL_BOOL it returned
  pref_types,  \* the pref_types it parsed
  built        \* the list it handed to build_accept_string

vars ==
  <<types, pc, op, header, arg, reused, resStr, resReal, resBool, pref_types, built>>

\* acceptnorm_state_get on a fresh vmod_priv: count = 0
Init ==
  /\ types = <<>>
  /\ pc = "idle"
  /\ op = "none"
  /\ header = <<>>
  /\ arg = <<>>
  /\ reused = FALSE
  /\ resStr = <<>>
  /\ resReal = 0
  /\ resBool = FALSE
  /\ pref_types = <<>>
  /\ built = <<>>

\* The call of one VMOD function and its return to the caller
Call(name, h, a, r) ==
  /\ pc' = "returned"
  /\ op' = name
  /\ header' = h
  /\ arg' = a
  /\ reused' = (Len(types) > 0)
  /\ types' = r.types
  /\ resStr' = r.str
  /\ resReal' = r.real
  /\ resBool' = r.bool
  /\ pref_types' = r.pref_types
  /\ built' = r.built

Canonicalize(H) ==
  /\ pc = "idle"
  /\ \E h \in H : Call("canonicalize", h, <<>>, vmod_canonicalize(types, h))

\* canonicalize called on the string the last canonicalize returned
Recanonicalize ==
  /\ pc = "returned"
  /\ op = "canonicalize"
  /\ Call("recanonicalize", resStr, <<>>, vmod_canonicalize(types, resStr))

Filter(H, P) ==
  /\ pc = "idle"
  /\ \E h \in H, p \in P : Call("filter", h, p, vmod_filter(types, h, p))

BestMatch(H, P) ==
  /\ pc = "idle"
  /\ \E h \in H, p \in P : Call("best_match", h, p, vmod_best_match(types, h, p))

Prefer(H, P) ==
  /\ pc = "idle"
  /\ \E h \in H, p \in P : Call("prefer", h, p, vmod_prefer(types, h, p))

Quality(H, T) ==
  /\ pc = "idle"
  /\ \E h \in H, t \in T : Call("quality", h, t, vmod_quality(types, h, t))

Accepts(H, T) ==
  /\ pc = "idle"
  /\ \E h \in H, t \in T : Call("accepts", h, t, vmod_accepts(types, h, t))

\* The caller is done with the result; the state object stays as it is.
Return ==
  /\ pc = "returned"
  /\ pc' = "idle"
  /\ op' = "none"
  /\ header' = <<>>
  /\ arg' = <<>>
  /\ reused' = FALSE
  /\ resStr' = <<>>
  /\ resReal' = 0
  /\ resBool' = FALSE
  /\ pref_types' = <<>>
  /\ built' = <<>>
  /\ UNCHANGED types

Next ==
  \/ Canonicalize(Headers)
  \/ Recanonicalize
  \/ Filter(Headers, Preferred)
  \/ BestMatch(Headers, Preferred)
  \/ Prefer(Headers, Preferred)
  \/ Quality(Headers, MediaTypes)
  \/ Accepts(Headers, MediaTypes)
  \/ Return

Spec == Init /\ [][Next]_vars

\* The same calls with the inputs that exceed MAX_MEDIA_TYPES
NextLong ==
  \/ Canonicalize(LongHeaders)
  \/ Recanonicalize
  \/ Filter(LongHeaders, LongPreferreds)
  \/ BestMatch(LongHeaders, LongPreferreds)
  \/ Prefer(LongHeaders, LongPreferreds)
  \/ Quality(LongHeaders, LongMediaTypes)
  \/ Accepts(LongHeaders, LongMediaTypes)
  \/ Return

SpecLong == Init /\ [][NextLong]_vars

\* ---- the properties ----

\* The terms the properties are stated in, taken from what they say rather
\* than from the functions above.

Returned(name) == pc = "returned" /\ op = name

\* a precedes or equals b in lexicographic order of the character codes
LexLeq(a, b) ==
  \E k \in 1..(Len(a) + 1) :
    /\ \A i \in 1..(k - 1) : i <= Len(b) /\ a[i] = b[i]
    /\ k = Len(a) + 1 \/ (k <= Len(b) /\ Ord(a[k]) < Ord(b[k]))

HasSlash(t) == \E i \in 1..Len(t) : t[i] = "/"

\* The main part of a type with a slash: the text before its first slash
MainOf(t) ==
  SubSeq(t, 1, (CHOOSE i \in 1..Len(t) :
                  t[i] = "/" /\ \A r \in 1..(i - 1) : t[r] # "/") - 1)

\* The matcher: */* matches anything, main/* every type of that main part,
\* any other pattern itself alone
Matches(pattern, t) ==
  \/ pattern = <<"*", "/", "*">>
  \/ pattern = t
  \/ /\ HasSlash(pattern) /\ HasSlash(t)
     /\ pattern = MainOf(pattern) \o <<"/", "*">>
     /\ MainOf(pattern) = MainOf(t)

Greatest(S) == CHOOSE m \in S : \A q \in S : q <= m
Least(S) == CHOOSE m \in S : \A q \in S : m <= q

\* The score of a preferred type against the parsed header: the greatest
\* quality of the entries that match it, 0 when none does
Score(t) ==
  Greatest({0} \cup {types[j].quality :
                       j \in {r \in 1..Len(types) : Matches(types[r].type, t)}})

PrefScores == {Score(pref_types[k]) : k \in 1..Len(pref_types)}

\* A call of quality with both arguments given, the type asked about, and
\* the entries of the parsed header in each of the three categories
QualityCall ==
  Returned("quality") /\ ~IsNullOrEmpty(header) /\ ~IsNullOrEmpty(arg)

AskedType == LowerStr(arg)

ExactEntries == {i \in 1..Len(types) : types[i].type = AskedType}

MainEntries ==
  {i \in 1..Len(types) :
     HasSlash(AskedType) /\ types[i].type = MainOf(AskedType) \o <<"/", "*">>}

AnyEntries == {i \in 1..Len(types) : types[i].type = <<"*", "/", "*">>}

\* The main/* entries when the main part asked about is shorter than
\* TYPE_PREFIX_SIZE - 2 characters, none otherwise
ShortMainEntries ==
  IF HasSlash(AskedType) /\ Len(MainOf(AskedType)) < TYPE_PREFIX_SIZE - 2
  THEN MainEntries ELSE {}

QualitiesOf(I) == {types[i].quality : i \in I}

\* The types of the comma-segments of a header: the text of each segment
\* before its first semicolon, trimmed and lower-cased, when it is not empty
SegmentToken(seg) ==
  LowerStr(SubStr(seg, skip_ws(seg, 1),
                  TrimEnd(seg, skip_ws(seg, 1),
                          ScanUntil(seg, skip_ws(seg, 1), {";"}))))

SegmentTypes(h) ==
  { SegmentToken(SubSeq(h, a + 1, b - 1)) :
      <<a, b>> \in { <<c, d>> \in (0..Len(h)) \X (1..(Len(h) + 1)) :
                      /\ c < d
                      /\ c = 0 \/ h[c] = ","
                      /\ d = Len(h) + 1 \/ h[d] = ","
                      /\ \A i \in (c + 1)..(d - 1) : h[i] # "," } } \ {<<>>}

\* C1: canonicalize is idempotent: called on the string canonicalize
\* returned, it returns that string again.
C1_Idempotent == Returned("recanonicalize") => resStr = header

\* C2: the entry list that canonicalize and filter serialize is ordered:
\* each entry's quality is at least the next entry's, and two adjacent
\* entries of equal quality have their types in lexicographic order.
C2_Ranked ==
  (pc = "returned" /\ op \in {"canonicalize", "recanonicalize", "filter"}) =>
    \A i \in 1..(Len(built) - 1) :
      /\ built[i].quality >= built[i + 1].quality
      /\ built[i].quality = built[i + 1].quality
           => LexLeq(built[i].type, built[i + 1].type)

\* filter reordered two kept types of equal quality
C2_Witness ==
  /\ Returned("filter")
  /\ Len(built) = 2
  /\ built[1].quality = built[2].quality
  /\ pref_types = <<built[2].type, built[1].type>>
  /\ built[1].type # built[2].type

\* C3, as stated: quality resolves by specificity: the quality of an entry
\* of exactly the type asked about; failing that, of a main/* entry for its
\* main part; failing that, of a */* entry; and 0.0 when there is none.
C3_Specificity ==
  QualityCall =>
    IF ExactEntries # {} THEN resReal \in QualitiesOf(ExactEntries)
    ELSE IF MainEntries # {} THEN resReal \in QualitiesOf(MainEntries)
    ELSE IF AnyEntries # {} THEN resReal \in QualitiesOf(AnyEntries)
    ELSE resReal = 0

\* C3, amended: the same resolution, where a main/* entry counts only when
\* the main part of the type asked about is shorter than 254 characters.
C3_SpecificityShortMain ==
  QualityCall =>
    IF ExactEntries # {} THEN resReal \in QualitiesOf(ExactEntries)
    ELSE IF ShortMainEntries # {} THEN resReal \in QualitiesOf(ShortMainEntries)
    ELSE IF AnyEntries # {} THEN resReal \in QualitiesOf(AnyEntries)
    ELSE resReal = 0

\* the exact entry decided although a wildcard entry has a higher quality
C3_Witness ==
  /\ QualityCall
  /\ ExactEntries # {}
  /\ \E i \in MainEntries \cup AnyEntries : types[i].quality > resReal
  /\ resReal > 0

\* C4: an entry whose q value is no number has quality 1.0: quality of its
\* type is 1.0 and canonicalize emits the type without a ;q= suffix.
C4_UnparsedQIsOne ==
  (pc = "returned" /\ header \in BadQHeaders) =>
    /\ (op = "quality" /\ arg = <<"a", "/", "b">>) => resReal = 100
    /\ op = "canonicalize" => resStr = <<"a", "/", "b">>

\* C5: bestMatch with a preferred list of at least one type returns the
\* first preferred type when the header is absent or empty, and otherwise
\* the earliest preferred type whose score is the greatest score of all
\* preferred types; the result is one of the preferred types.
C5_EarliestBest ==
  (Returned("best_match") /\ Len(pref_types) > 0) =>
    /\ \E k \in 1..Len(pref_types) : resStr = pref_types[k]
    /\ IF IsNullOrEmpty(header) THEN resStr = pref_types[1]
       ELSE resStr = pref_types[Least({k \in 1..Len(pref_types) :
                        Score(pref_types[k]) = Greatest(PrefScores)})]

\* two preferred types tie at a score above 0 and the earlier is returned
C5_Witness ==
  /\ Returned("best_match")
  /\ ~IsNullOrEmpty(header)
  /\ Len(pref_types) = 2
  /\ pref_types[1] # pref_types[2]
  /\ Score(pref_types[1]) = Score(pref_types[2])
  /\ Score(pref_types[1]) > 0
  /\ resStr = pref_types[1]

\* C6: filter with a header and a preferred list keeps exactly the preferred
\* types whose score is above 0, each with its score; when none is kept and
\* the list has a first preferred type, the output is that type alone.
C6_KeptTypes ==
  (Returned("filter") /\ ~IsNullOrEmpty(header) /\ ~IsNullOrEmpty(arg)) =>
    IF \E k \in 1..Len(pref_types) : Score(pref_types[k]) > 0
    THEN {built[i] : i \in 1..Len(built)}
           = {[type |-> pref_types[k], quality |-> Score(pref_types[k])] :
                k \in {r \in 1..Len(pref_types) : Score(pref_types[r]) > 0}}
    ELSE Len(pref_types) > 0 => resStr = pref_types[1]

\* of two preferred types the second alone is kept, at a quality below 1.0
C6_Witness ==
  /\ Returned("filter")
  /\ ~IsNullOrEmpty(header)
  /\ Len(pref_types) = 2
  /\ Score(pref_types[1]) = 0
  /\ built = <<[type |-> pref_types[2], quality |-> Score(pref_types[2])]>>
  /\ Score(pref_types[2]) < 100

\* C7: the parsed entries, the parsed preferred types and the types filter
\* keeps number at most 64 in every state, and a header of more than 64
\* entries yields its first 64 entries.
C7_Capacity ==
  /\ Len(types) <= MAX_MEDIA_TYPES
  /\ Len(pref_types) <= MAX_MEDIA_TYPES
  /\ Len(built) <= MAX_MEDIA_TYPES
  /\ (pc = "returned" /\ header = LongHeader /\ op \in {"canonicalize", "filter"})
       => types = SubSeq(LongEntries, 1, MAX_MEDIA_TYPES)

\* filter called with more than 64 entries and more than 64 preferred types
C7_Witness ==
  /\ Returned("filter")
  /\ header = LongHeader
  /\ arg = LongPreferred
  /\ Len(LongEntries) > MAX_MEDIA_TYPES
  /\ Len(types) = MAX_MEDIA_TYPES
  /\ Len(pref_types) = MAX_MEDIA_TYPES
  /\ Len(built) = MAX_MEDIA_TYPES

\* C8: the result of every call is the result of the same call on a fresh,
\* empty state object.
C8_FreshState ==
  pc = "returned" =>
    /\ op \in {"canonicalize", "recanonicalize"}
         => resStr = vmod_canonicalize(<<>>, header).str
    /\ op = "filter" => resStr = vmod_filter(<<>>, header, arg).str
    /\ op = "best_match" => resStr = vmod_best_match(<<>>, header, arg).str
    /\ op = "prefer" => resStr = vmod_prefer(<<>>, header, arg).str
    /\ op = "quality" => resReal = vmod_quality(<<>>, header, arg).real
    /\ op = "accepts" => resBool = vmod_accepts(<<>>, header, arg).bool

\* a call on a state that held entries, after which it holds others
C8_Witness ==
  /\ Returned("quality")
  /\ reused
  /\ resReal > 0
  /\ Len(types) = 1

C10_EmptySegmentSkipped ==
  (Returned("canonicalize") /\ header \in EmptySegmentHeaders) =>
    \A t \in SegmentTypes(header) : \E i \in 1..Len(built) : built[i].type = t

====
